---------------------------- MODULE Spec2Model ----------------------------
(***************************************************************************)
(* A model of github.com/caffix/queue (src/queue.go): a priority queue     *)
(* kept in a slice that Push re-sorts and heap.Pop sifts, guarded by a     *)
(* mutex, with a buffered channel of capacity 2 as the readiness signal.   *)
(*                                                                         *)
(* Threads execute the methods step by step: every mutex operation and     *)
(* every channel operation (len, send, receive) is one atomic step; code   *)
(* that runs between two such operations and touches only state protected *)
(* by the held mutex is folded into the step that precedes it.             *)
(***************************************************************************)
EXTENDS Integers, Sequences, FiniteSets

(***************************************************************************)
(* Program constants.                                                      *)
(***************************************************************************)
PriorityLow == 0
PriorityNormal == 1
PriorityHigh == 2
PriorityCritical == 3
\* make(chan struct{}, 2)
SignalCap == 2

(***************************************************************************)
(* Bounds of the model.                                                    *)
(***************************************************************************)
\* threads of the concurrent specifications that call Append/AppendPriority
NProducers == 2
\* threads of the concurrent specification that receive from Signal / call Next
NConsumers == 2
\* Append/AppendPriority calls made in a run of the concurrent
\* specifications, all threads together
MaxAppends == 3
\* Append/AppendPriority calls made by the single thread of SpecSeq
MaxSeqAppends == 5
\* Append/AppendPriority calls made by the single thread of SpecCalls
MaxCallAppends == 3
\* AppendPriority calls made by the single thread of SpecAnyPriority
MaxAnyAppends == 4

Producers == 1..NProducers
Consumers == (NProducers + 1)..(NProducers + NConsumers)
\* the producer-only specification runs one more producer than the channel holds
ProducersOnly == 1..(SignalCap + 1)
Threads == 1..(NProducers + NConsumers)
\* the priorities the callers pass to AppendPriority
Priorities == {PriorityLow, PriorityNormal, PriorityHigh, PriorityCritical}
\* the priorities passed in the concurrent specifications
ConcPriorities == {PriorityNormal, PriorityHigh}
\* the priorities of TestNext in src/queue.go (90, 75, 30, 5), a negative
\* one and one of the four levels
AnyPriorities == {0 - 1, PriorityNormal, 5, 30, 75, 90}

NoThread == 0

VARIABLES
    queue,    \* q.queue: the priorityQueue slice, a sequence of queueElement
    sig,      \* len(q.Signal): notifications buffered in the channel
    mutex,    \* q.Mutex: the thread holding it, or NoThread
    pc,       \* per thread: where it stands in the method it executes
    started,  \* history: number of Append/AppendPriority calls started
    inserted, \* history: the priorities of the entries pushed, in order of
              \* insertion; the k-th entry pushed carries Data = k
    popped,   \* history: the entries removed by Next, in order of removal
    raised,   \* history: an Append returned while no Next call was in
              \* progress, and since then no Next call started and nobody
              \* received from the channel
    call,     \* per thread: the exported method it executes and the priority
              \* of the element it has yet to push
    ret,      \* per thread: the values the Next, Len or Empty call in
              \* progress returns (inside Next: the locals data and ok);
              \* in Process, the element handed to the callback
    received, \* history: some thread has received from the Signal channel
    delivered,\* history: the arguments of the callback invocations of the
              \* last Process call, in order
    atStart,  \* history: the store when the last Process call started
    viaAppend \* history: the Data of the entries inserted through Append

vars == <<queue, sig, mutex, pc, started, inserted, popped, raised,
          call, ret, received, delivered, atStart, viaAppend>>

\* the histories of the callers
hist == <<received, delivered, atStart, viaAppend>>

(***************************************************************************)
(* priorityQueue: sort.Interface and heap.Interface (1-based positions;    *)
(* the index field keeps the Go, 0-based, value).                          *)
(***************************************************************************)
\* Less that compares the levels the priorities fall into
LessLevels(pq, i, j) ==
    LET Level(p) == IF p < PriorityLow THEN PriorityLow
                    ELSE IF p > PriorityCritical THEN PriorityCritical ELSE p
    IN  Level(pq[i].priority) > Level(pq[j].priority)

\* priorityQueue.Less
Less(pq, i, j) == pq[i].priority > pq[j].priority

Swap(pq, i, j) ==
    [pq EXCEPT ![i] = [pq[j] EXCEPT !.index = i - 1],
               ![j] = [pq[i] EXCEPT !.index = j - 1]]

\* sort.insertionSort, inner loop: for j := i; j > a && Less(j, j-1); j--
RECURSIVE insertionStep(_, _)
insertionStep(pq, j) ==
    IF j > 1 /\ Less(pq, j, j - 1)
    THEN insertionStep(Swap(pq, j, j - 1), j - 1)
    ELSE pq

\* sort.insertionSort, outer loop: for i := a + 1; i < b; i++
RECURSIVE insertionSort(_, _)
insertionSort(pq, i) ==
    IF i > Len(pq) THEN pq ELSE insertionSort(insertionStep(pq, i), i + 1)

\* sort.Sort(*pq): for the lengths reached here (at most 6 elements) every
\* release of the sort package runs exactly an insertion sort.
SortSort(pq) == insertionSort(pq, 2)

\* priorityQueue.Push
Push(pq, x) == SortSort(Append(pq, [x EXCEPT !.index = Len(pq)]))

\* container/heap up(h, j): the parent of 0-based j is (j-1)/2
RECURSIVE up(_, _)
up(pq, j) ==
    LET i == IF j = 1 THEN 1 ELSE j \div 2
    IN  IF i = j \/ ~Less(pq, j, i) THEN pq ELSE up(Swap(pq, i, j), i)

\* down that never looks at the right child
RECURSIVE downLeftOnly(_, _, _)
downLeftOnly(pq, i, n) ==
    LET j == 2 * i
    IN  IF j > n THEN pq
        ELSE IF ~Less(pq, j, i) THEN pq
        ELSE downLeftOnly(Swap(pq, i, j), j, n)

\* container/heap down(h, i0, n)
RECURSIVE down(_, _, _)
down(pq, i, n) ==
    LET j1 == 2 * i
        j2 == j1 + 1
        j  == IF j2 <= n /\ Less(pq, j2, j1) THEN j2 ELSE j1
    IN  IF j1 > n THEN pq
        ELSE IF ~Less(pq, j, i) THEN pq
        ELSE down(Swap(pq, i, j), j, n)

\* heap.Push(&q.queue, element)
HeapPush(pq, x) == up(Push(pq, x), Len(pq) + 1)

\* Pop that leaves the slice as it was
PopKeepsLast(pq) == pq

\* priorityQueue.Pop: the slice without its last element
Pop(pq) == SubSeq(pq, 1, Len(pq) - 1)

\* priorityQueue.Pop: the element it returns
PopElement(pq) == [pq[Len(pq)] EXCEPT !.index = -1]

\* heap.Pop(&q.queue), before the final h.Pop(): Swap(0, n); down(0, n)
HeapSift(pq) == down(Swap(pq, 1, Len(pq)), 1, Len(pq) - 1)

HeapPop(pq) == Pop(HeapSift(pq))

HeapPopElement(pq) == PopElement(HeapSift(pq))

\* element := new(queueElement); Data is the entry's identity
NewElement(d, p) == [Data |-> d, priority |-> p, index |-> 0]

(***************************************************************************)
(* NewQueue                                                                *)
(***************************************************************************)
\* a thread outside every method
NoCall == [op |-> "", priority |-> 0]

\* no result yet; also the zero values of the locals of Next (data is nil)
NoResult == [op |-> "", data |-> 0, ok |-> FALSE, n |-> 0]

Init ==
    /\ queue = << >>
    /\ sig = 0
    /\ mutex = NoThread
    /\ pc = [t \in Threads |-> "idle"]
    /\ started = 0
    /\ inserted = << >>
    /\ popped = << >>
    /\ raised = FALSE
    /\ call = [t \in Threads |-> NoCall]
    /\ ret = [t \in Threads |-> NoResult]
    /\ received = FALSE
    /\ delivered = << >>
    /\ atStart = << >>
    /\ viaAppend = {}

NextInProgress ==
    \E t \in Threads :
        pc[t] \in {"n_pop", "n_sig", "n_send", "n_len", "n_recv", "n_unlock"}

\* the thread returns from append
AppendReturns(t) == pc[t] # "idle" /\ pc'[t] = "idle"

\* the history variable raised after a step of append
RaisedAfter(t) == IF AppendReturns(t) THEN ~NextInProgress ELSE raised

\* the variable call after a step of a method: cleared when the thread returns
CallAfter(t) == IF pc'[t] = "idle" THEN [call EXCEPT ![t] = NoCall] ELSE call

\* the variable ret after a step of a method: the caller has taken the values
\* when the thread has returned
ResultAfter(t) == IF pc'[t] = "idle" THEN [ret EXCEPT ![t] = NoResult] ELSE ret

(***************************************************************************)
(* Queue.append, entered from Append or from AppendPriority                *)
(***************************************************************************)
\* q.Lock()
AppendLock(t, op, priority, max) ==
    /\ pc[t] = "idle"
    /\ started < max
    /\ mutex = NoThread
    /\ mutex' = t
    /\ started' = started + 1
    /\ call' = [call EXCEPT ![t] = [op |-> op, priority |-> priority]]
    /\ pc' = [pc EXCEPT ![t] = "a_push"]
    /\ UNCHANGED <<queue, sig, inserted, popped, raised, ret, hist>>

\* Append that passes the zero value of the priority
QueueAppendLow(t, max) == AppendLock(t, "Append", PriorityLow, max)

\* Queue.Append: q.append(data, PriorityNormal)
QueueAppend(t, max) == AppendLock(t, "Append", PriorityNormal, max)

\* Queue.AppendPriority: q.append(data, priority)
AppendPriority(t, priority, max) ==
    AppendLock(t, "AppendPriority", priority, max)

\* append that drops the entries of unrecognized levels
AppendPushRecognized(t) ==
    /\ pc[t] = "a_push"
    /\ queue' = IF call[t].priority \in Priorities
                THEN HeapPush(queue, NewElement(Len(inserted) + 1,
                                                call[t].priority))
                ELSE queue
    /\ inserted' = Append(inserted, call[t].priority)
    /\ viaAppend' = viaAppend
    /\ call' = [call EXCEPT ![t].priority = NoCall.priority]
    /\ pc' = [pc EXCEPT ![t] = "a_unlock"]
    /\ UNCHANGED <<sig, mutex, started, popped, raised, ret,
                   received, delivered, atStart>>

\* heap.Push(&q.queue, element)
AppendPush(t) ==
    /\ pc[t] = "a_push"
    /\ queue' = HeapPush(queue, NewElement(Len(inserted) + 1, call[t].priority))
    /\ inserted' = Append(inserted, call[t].priority)
    /\ viaAppend' = IF call[t].op = "Append"
                    THEN viaAppend \cup {Len(inserted) + 1}
                    ELSE viaAppend
    /\ call' = [call EXCEPT ![t].priority = NoCall.priority]
    /\ pc' = [pc EXCEPT ![t] = "a_unlock"]
    /\ UNCHANGED <<sig, mutex, started, popped, raised, ret,
                   received, delivered, atStart>>

\* append that returns after the unlock, without q.SendSignal()
AppendUnlockReturns(t) ==
    /\ pc[t] = "a_unlock"
    /\ mutex' = NoThread
    /\ pc' = [pc EXCEPT ![t] = "idle"]
    /\ raised' = RaisedAfter(t)
    /\ call' = CallAfter(t)
    /\ UNCHANGED <<queue, sig, started, inserted, popped, ret, hist>>

\* q.Unlock()
AppendUnlock(t) ==
    /\ pc[t] = "a_unlock"
    /\ mutex' = NoThread
    /\ pc' = [pc EXCEPT ![t] = "a_sig"]
    /\ raised' = RaisedAfter(t)
    /\ call' = CallAfter(t)
    /\ UNCHANGED <<queue, sig, started, inserted, popped, ret, hist>>

(***************************************************************************)
(* Queue.SendSignal: the test of len(q.Signal) and the send are two        *)
(* channel operations.                                                     *)
(***************************************************************************)
\* SendSignal with the test inverted
SendSignalTestInverted(t, send, return) ==
    /\ pc' = [pc EXCEPT ![t] = IF sig # 0 THEN send ELSE return]
    /\ UNCHANGED sig

\* if len(q.Signal) == 0
SendSignalTest(t, send, return) ==
    /\ pc' = [pc EXCEPT ![t] = IF sig = 0 THEN send ELSE return]
    /\ UNCHANGED sig

\* q.Signal <- struct{}{}: blocks while the buffer is full
SendSignalSend(t, return) ==
    /\ sig < SignalCap
    /\ sig' = sig + 1
    /\ pc' = [pc EXCEPT ![t] = return]

\* q.SendSignal() called by append, after the unlock
AppendSignalTest(t) ==
    /\ pc[t] = "a_sig"
    /\ SendSignalTest(t, "a_send", "idle")
    /\ raised' = RaisedAfter(t)
    /\ call' = CallAfter(t)
    /\ UNCHANGED <<queue, mutex, started, inserted, popped, ret, hist>>

AppendSignalSend(t) ==
    /\ pc[t] = "a_send"
    /\ SendSignalSend(t, "idle")
    /\ raised' = RaisedAfter(t)
    /\ call' = CallAfter(t)
    /\ UNCHANGED <<queue, mutex, started, inserted, popped, ret, hist>>

(***************************************************************************)
(* Queue.Next, called directly or by Process                               *)
(***************************************************************************)
\* q.Lock(); var ok bool; var data interface{}
NextLock(t) ==
    /\ pc[t] \in {"idle", "got", "p_next"}
    /\ mutex = NoThread
    /\ mutex' = t
    /\ pc' = [pc EXCEPT ![t] = "n_pop"]
    /\ raised' = FALSE
    /\ call' = IF pc[t] = "p_next"
               THEN call
               ELSE [call EXCEPT ![t] = [op |-> "Next", priority |-> 0]]
    /\ ret' = [ret EXCEPT ![t] = [NoResult EXCEPT !.op = "Next"]]
    /\ UNCHANGED <<queue, sig, started, inserted, popped, hist>>

\* Next that reports an entry whether or not it found one
NextPopAlwaysFound(t) ==
    /\ pc[t] = "n_pop"
    /\ IF Len(queue) > 0
       THEN /\ queue' = HeapPop(queue)
            /\ popped' = Append(popped, HeapPopElement(queue))
            /\ ret' = [ret EXCEPT ![t].data = HeapPopElement(queue).Data,
                                  ![t].ok = TRUE]
       ELSE /\ UNCHANGED <<queue, popped>>
            /\ ret' = [ret EXCEPT ![t].ok = TRUE]
    /\ pc' = [pc EXCEPT ![t] = IF Len(queue') > 0 THEN "n_sig" ELSE "n_len"]
    /\ UNCHANGED <<sig, mutex, started, inserted, raised, call, hist>>

\* if q.queue.Len() > 0 { heap.Pop } and the test of q.queue.Len() after it
NextPop(t) ==
    /\ pc[t] = "n_pop"
    /\ IF Len(queue) > 0
       THEN /\ queue' = HeapPop(queue)
            /\ popped' = Append(popped, HeapPopElement(queue))
            /\ ret' = [ret EXCEPT ![t].data = HeapPopElement(queue).Data,
                                  ![t].ok = TRUE]
       ELSE UNCHANGED <<queue, popped, ret>>
    /\ pc' = [pc EXCEPT ![t] = IF Len(queue') > 0 THEN "n_sig" ELSE "n_len"]
    /\ UNCHANGED <<sig, mutex, started, inserted, raised, call, hist>>

\* Next that does not call q.SendSignal() when entries remain
NextSignalSkip(t) ==
    /\ pc[t] = "n_sig"
    /\ pc' = [pc EXCEPT ![t] = "n_unlock"]
    /\ UNCHANGED <<queue, sig, mutex, started, inserted, popped, raised,
                   call, ret, hist>>

\* q.SendSignal() called by Next, the mutex held
NextSignalTest(t) ==
    /\ pc[t] = "n_sig"
    /\ SendSignalTest(t, "n_send", "n_unlock")
    /\ UNCHANGED <<queue, mutex, started, inserted, popped, raised,
                   call, ret, hist>>

NextSignalSend(t) ==
    /\ pc[t] = "n_send"
    /\ SendSignalSend(t, "n_unlock")
    /\ UNCHANGED <<queue, mutex, started, inserted, popped, raised,
                   call, ret, hist>>

\* Next that leaves the notification in the channel when the store is empty
NextLenTestKeeps(t) ==
    /\ pc[t] = "n_len"
    /\ pc' = [pc EXCEPT ![t] = "n_unlock"]
    /\ UNCHANGED <<queue, sig, mutex, started, inserted, popped, raised,
                   call, ret, hist>>

\* Next that receives without the test of len(q.Signal)
NextLenTestAlways(t) ==
    /\ pc[t] = "n_len"
    /\ pc' = [pc EXCEPT ![t] = "n_recv"]
    /\ UNCHANGED <<queue, sig, mutex, started, inserted, popped, raised,
                   call, ret, hist>>

\* else if len(q.Signal) > 0
NextLenTest(t) ==
    /\ pc[t] = "n_len"
    /\ pc' = [pc EXCEPT ![t] = IF sig > 0 THEN "n_recv" ELSE "n_unlock"]
    /\ UNCHANGED <<queue, sig, mutex, started, inserted, popped, raised,
                   call, ret, hist>>

\* <-q.Signal: blocks while the buffer is empty
NextReceive(t) ==
    /\ pc[t] = "n_recv"
    /\ sig > 0
    /\ sig' = sig - 1
    /\ pc' = [pc EXCEPT ![t] = "n_unlock"]
    /\ UNCHANGED <<queue, mutex, started, inserted, popped, raised,
                   call, ret, hist>>

\* the deferred q.Unlock() and the return; in Process, the test of ok
NextUnlock(t) ==
    /\ pc[t] = "n_unlock"
    /\ mutex' = NoThread
    /\ pc' = [pc EXCEPT ![t] = IF call[t].op = "Process" /\ ret[t].ok
                               THEN "p_callback"
                               ELSE "idle"]
    /\ call' = CallAfter(t)
    /\ ret' = ResultAfter(t)
    /\ UNCHANGED <<queue, sig, started, inserted, popped, raised, hist>>

(***************************************************************************)
(* Queue.Process                                                           *)
(***************************************************************************)
\* the call; its first statement is q.Next()
Process(t) ==
    /\ pc[t] = "idle"
    /\ pc' = [pc EXCEPT ![t] = "p_next"]
    /\ call' = [call EXCEPT ![t] = [op |-> "Process", priority |-> 0]]
    /\ atStart' = queue
    /\ delivered' = << >>
    /\ UNCHANGED <<queue, sig, mutex, started, inserted, popped, raised, ret,
                   received, viaAppend>>

\* Process with an if in place of the for: one callback and the return
ProcessCallbackOnce(t) ==
    /\ pc[t] = "p_callback"
    /\ delivered' = Append(delivered, ret[t].data)
    /\ pc' = [pc EXCEPT ![t] = "idle"]
    /\ call' = CallAfter(t)
    /\ ret' = [ret EXCEPT ![t] = NoResult]
    /\ UNCHANGED <<queue, sig, mutex, started, inserted, popped, raised,
                   received, atStart, viaAppend>>

\* callback(element), then element, ok = q.Next()
ProcessCallback(t) ==
    /\ pc[t] = "p_callback"
    /\ delivered' = Append(delivered, ret[t].data)
    /\ pc' = [pc EXCEPT ![t] = "p_next"]
    /\ call' = CallAfter(t)
    /\ ret' = [ret EXCEPT ![t] = NoResult]
    /\ UNCHANGED <<queue, sig, mutex, started, inserted, popped, raised,
                   received, atStart, viaAppend>>

(***************************************************************************)
(* Queue.Len, called directly or by Empty                                  *)
(***************************************************************************)
\* Len that counts one entry less than the store holds
LenLockOneLess(t, op) ==
    /\ pc[t] = "idle"
    /\ mutex = NoThread
    /\ mutex' = t
    /\ pc' = [pc EXCEPT ![t] = "l_unlock"]
    /\ call' = [call EXCEPT ![t] = [op |-> op, priority |-> 0]]
    /\ ret' = [ret EXCEPT ![t] = [op |-> op, data |-> 0,
                                  n |-> Len(queue) - 1,
                                  ok |-> op = "Empty" /\ Len(queue) - 1 = 0]]
    /\ UNCHANGED <<queue, sig, started, inserted, popped, raised, hist>>

\* q.Lock() and the value of return q.queue.Len(); in Empty, of q.Len() == 0
LenLock(t, op) ==
    /\ pc[t] = "idle"
    /\ mutex = NoThread
    /\ mutex' = t
    /\ pc' = [pc EXCEPT ![t] = "l_unlock"]
    /\ call' = [call EXCEPT ![t] = [op |-> op, priority |-> 0]]
    /\ ret' = [ret EXCEPT ![t] = [op |-> op, data |-> 0,
                                  n |-> Len(queue),
                                  ok |-> op = "Empty" /\ Len(queue) = 0]]
    /\ UNCHANGED <<queue, sig, started, inserted, popped, raised, hist>>

\* Queue.Len
QueueLen(t) == LenLock(t, "Len")

\* Queue.Empty: q.Len() == 0
Empty(t) == LenLock(t, "Empty")

\* the deferred q.Unlock() and the return
LenUnlock(t) ==
    /\ pc[t] = "l_unlock"
    /\ mutex' = NoThread
    /\ pc' = [pc EXCEPT ![t] = "idle"]
    /\ call' = CallAfter(t)
    /\ ret' = ResultAfter(t)
    /\ UNCHANGED <<queue, sig, started, inserted, popped, raised, hist>>

(***************************************************************************)
(* A consumer's receive from the exported channel: <-q.Signal              *)
(***************************************************************************)
ReceiveSignal(t) ==
    /\ pc[t] = "idle"
    /\ sig > 0
    /\ sig' = sig - 1
    /\ pc' = [pc EXCEPT ![t] = "got"]
    /\ raised' = FALSE
    /\ received' = TRUE
    /\ UNCHANGED <<queue, mutex, started, inserted, popped, call, ret,
                   delivered, atStart, viaAppend>>

(***************************************************************************)
(* Queue.Signal(), the accessor that src/queue_test.go calls and that      *)
(* src/queue.go, where Signal is a field, does not define: under the       *)
(* mutex, if the store is non-empty and the signal unset, assert it; then  *)
(* hand the channel to the caller.                                         *)
(***************************************************************************)
\* q.Lock(), and the test of the occupancy
SignalLock(t) ==
    /\ pc[t] = "idle"
    /\ mutex = NoThread
    /\ mutex' = t
    /\ pc' = [pc EXCEPT ![t] = IF Len(queue) > 0 THEN "s_sig" ELSE "s_unlock"]
    /\ UNCHANGED <<queue, sig, started, inserted, popped, raised,
                   call, ret, hist>>

SignalSignalTest(t) ==
    /\ pc[t] = "s_sig"
    /\ SendSignalTest(t, "s_send", "s_unlock")
    /\ UNCHANGED <<queue, mutex, started, inserted, popped, raised,
                   call, ret, hist>>

SignalSignalSend(t) ==
    /\ pc[t] = "s_send"
    /\ SendSignalSend(t, "s_unlock")
    /\ UNCHANGED <<queue, mutex, started, inserted, popped, raised,
                   call, ret, hist>>

\* q.Unlock() and the return of the channel
SignalUnlock(t) ==
    /\ pc[t] = "s_unlock"
    /\ mutex' = NoThread
    /\ pc' = [pc EXCEPT ![t] = "handle"]
    /\ UNCHANGED <<queue, sig, started, inserted, popped, raised,
                   call, ret, hist>>

\* <-q.Signal(): the receive from the channel Signal() returned
ReceiveHandle(t) ==
    /\ pc[t] = "handle"
    /\ sig > 0
    /\ sig' = sig - 1
    /\ pc' = [pc EXCEPT ![t] = "got"]
    /\ raised' = FALSE
    /\ received' = TRUE
    /\ UNCHANGED <<queue, mutex, started, inserted, popped, call, ret,
                   delivered, atStart, viaAppend>>

SignalSteps(t) ==
    \/ SignalSignalTest(t)
    \/ SignalSignalSend(t)
    \/ SignalUnlock(t)

(***************************************************************************)
(* The steps of a thread inside append, inside Next and inside Len.        *)
(***************************************************************************)
AppendSteps(t) ==
    \/ AppendPush(t)
    \/ AppendUnlock(t)
    \/ AppendSignalTest(t)
    \/ AppendSignalSend(t)

NextSteps(t) ==
    \/ NextPop(t)
    \/ NextSignalTest(t)
    \/ NextSignalSend(t)
    \/ NextLenTest(t)
    \/ NextReceive(t)
    \/ NextUnlock(t)

(***************************************************************************)
(* Spec: producers append concurrently; each consumer either receives from *)
(* the Signal channel and then calls Next, or calls Next directly.         *)
(***************************************************************************)
Next ==
    \/ \E t \in Producers, p \in ConcPriorities : AppendPriority(t, p, MaxAppends)
    \/ \E t \in Producers : AppendSteps(t)
    \/ \E t \in Consumers : ReceiveSignal(t)
    \/ \E t \in Consumers : NextLock(t)
    \/ \E t \in Consumers : NextSteps(t)

Spec == Init /\ [][Next]_vars

(***************************************************************************)
(* SpecSeq: one thread makes all the calls, one after the other, with any  *)
(* of the priorities; between two calls it may receive from the channel.   *)
(***************************************************************************)
MainThread == {1}

SeqNext ==
    \/ \E t \in MainThread, p \in Priorities :
           AppendPriority(t, p, MaxSeqAppends)
    \/ \E t \in MainThread : AppendSteps(t)
    \/ \E t \in MainThread : ReceiveSignal(t)
    \/ \E t \in MainThread : NextLock(t)
    \/ \E t \in MainThread : NextSteps(t)

SpecSeq == Init /\ [][SeqNext]_vars

(***************************************************************************)
(* SpecProducers: SignalCap + 1 producers and nobody else; no thread ever  *)
(* receives from the channel.                                              *)
(***************************************************************************)
ProducersNext ==
    \/ \E t \in ProducersOnly, p \in ConcPriorities :
           AppendPriority(t, p, MaxAppends)
    \/ \E t \in ProducersOnly : AppendSteps(t)

SpecProducers == Init /\ [][ProducersNext]_vars

(***************************************************************************)
(* SpecWait: the producers append concurrently and one consumer repeats:   *)
(* wait until the channel is readable, receive, call Next (the loop of     *)
(* TestSignal).                                                            *)
(***************************************************************************)
Waiter == {NProducers + 1}

WaitNext ==
    \/ \E t \in Producers, p \in ConcPriorities : AppendPriority(t, p, MaxAppends)
    \/ \E t \in Producers : AppendSteps(t)
    \/ \E t \in Waiter : ReceiveSignal(t)
    \/ \E t \in Waiter : pc[t] = "got" /\ NextLock(t)
    \/ \E t \in Waiter : NextSteps(t)

SpecWait == Init /\ [][WaitNext]_vars

(***************************************************************************)
(* SpecSignal: one producer appends and, concurrently, each consumer runs  *)
(* the loop of TestSignal in src/queue_test.go: obtain the channel from    *)
(* Signal(), receive from it, call Next.                                   *)
(***************************************************************************)
\* the thread that appends under SpecSignal
SignalProducer == {1}

SignalNext ==
    \/ \E t \in SignalProducer, p \in ConcPriorities :
           AppendPriority(t, p, MaxAppends)
    \/ \E t \in SignalProducer : AppendSteps(t)
    \/ \E t \in Consumers : SignalLock(t)
    \/ \E t \in Consumers : SignalSteps(t)
    \/ \E t \in Consumers : ReceiveHandle(t)
    \/ \E t \in Consumers : pc[t] = "got" /\ NextLock(t)
    \/ \E t \in Consumers : NextSteps(t)

SpecSignal == Init /\ [][SignalNext]_vars

(***************************************************************************)
(* SpecCalls: one thread calls the exported methods one after the other:   *)
(* Append, AppendPriority with one of the four levels, Next, Process, Len  *)
(* and Empty; between two calls it may receive from the channel.  A call   *)
(* that has started keeps running: the thread is the only one and the      *)
(* scheduler runs it whenever its next statement can execute.              *)
(***************************************************************************)
\* a step of the thread inside a method
MethodStep(t) ==
    \/ AppendSteps(t)
    \/ pc[t] = "p_next" /\ NextLock(t)
    \/ NextSteps(t)
    \/ ProcessCallback(t)
    \/ LenUnlock(t)

CallsNext ==
    \/ \E t \in MainThread : QueueAppend(t, MaxCallAppends)
    \/ \E t \in MainThread, p \in Priorities :
           AppendPriority(t, p, MaxCallAppends)
    \/ \E t \in MainThread : AppendSteps(t)
    \/ \E t \in MainThread : ReceiveSignal(t)
    \/ \E t \in MainThread : NextLock(t)
    \/ \E t \in MainThread : NextSteps(t)
    \/ \E t \in MainThread : Process(t)
    \/ \E t \in MainThread : ProcessCallback(t)
    \/ \E t \in MainThread : QueueLen(t)
    \/ \E t \in MainThread : Empty(t)
    \/ \E t \in MainThread : LenUnlock(t)

SpecCalls ==
    Init /\ [][CallsNext]_vars /\ WF_vars(\E t \in MainThread : MethodStep(t))

(***************************************************************************)
(* SpecAnyPriority: one thread calls AppendPriority with integers inside   *)
(* and outside PriorityLow..PriorityCritical, and Next; between two calls  *)
(* it may receive from the channel.                                        *)
(***************************************************************************)
AnyPriorityNext ==
    \/ \E t \in MainThread, p \in AnyPriorities :
           AppendPriority(t, p, MaxAnyAppends)
    \/ \E t \in MainThread : AppendSteps(t)
    \/ \E t \in MainThread : ReceiveSignal(t)
    \/ \E t \in MainThread : NextLock(t)
    \/ \E t \in MainThread : NextSteps(t)

SpecAnyPriority == Init /\ [][AnyPriorityNext]_vars

(***************************************************************************)
(* SpecPair: one producer appends and one consumer alternates a receive    *)
(* from the channel with a Next call.                                      *)
(***************************************************************************)
PairNext ==
    \/ \E t \in SignalProducer, p \in ConcPriorities :
           AppendPriority(t, p, MaxAppends)
    \/ \E t \in SignalProducer : AppendSteps(t)
    \/ \E t \in Waiter : ReceiveSignal(t)
    \/ \E t \in Waiter : pc[t] = "got" /\ NextLock(t)
    \/ \E t \in Waiter : NextSteps(t)

SpecPair == Init /\ [][PairNext]_vars

(***************************************************************************)
(* Entries of the histories.                                               *)
(***************************************************************************)
Entry(e) == <<e.Data, e.priority>>

\* how many times the entry (d, p) occurs in a sequence of elements
Count(s, d, p) == Cardinality({i \in DOMAIN s : Entry(s[i]) = <<d, p>>})

\* no queue operation is in progress: every thread is outside the methods
Quiescent == \A t \in Threads : pc[t] \in {"idle", "got"}

(***************************************************************************)
(* C1. FIFO within a level: of two entries appended at the same priority   *)
(* by calls of which the first completed before the second started, Next   *)
(* returns the first before the second.  Under SpecSeq the calls do not    *)
(* overlap and Data numbers the entries in the order of the calls, so: an  *)
(* entry returned by Next has a smaller Data than every entry of its level *)
(* returned after it and than every entry of its level still stored.       *)
(***************************************************************************)
FIFOWithinLevel ==
    \A i \in DOMAIN popped :
        /\ \A j \in DOMAIN popped :
               (i < j /\ popped[i].priority = popped[j].priority)
                   => popped[i].Data < popped[j].Data
        /\ \A k \in DOMAIN queue :
               popped[i].priority = queue[k].priority
                   => popped[i].Data < queue[k].Data

(***************************************************************************)
(* C2. Strict priority: whenever Next removes an entry, no entry of the    *)
(* store has a strictly higher priority at the moment of removal.          *)
(***************************************************************************)
StrictPriority ==
    [][popped' # popped =>
          \A k \in DOMAIN queue :
              queue[k].priority <= popped'[Len(popped')].priority]_vars

\* four levels appended in ascending order: the entry appended last has been
\* returned first and the entry appended third after it
StrictPriorityWitness ==
    /\ inserted = <<PriorityLow, PriorityNormal, PriorityHigh, PriorityCritical>>
    /\ Len(popped) = 2
    /\ Entry(popped[1]) = <<4, PriorityCritical>>
    /\ Entry(popped[2]) = <<3, PriorityHigh>>
    /\ Len(queue) = 2

(***************************************************************************)
(* C3. No loss, no duplication: in every reachable state each entry whose  *)
(* insert has completed is either in the store or has been returned by     *)
(* Next, exactly once in all, and nothing else is stored or returned.      *)
(***************************************************************************)
NoLossNoDuplication ==
    /\ \A d \in DOMAIN inserted :
           Count(queue, d, inserted[d]) + Count(popped, d, inserted[d]) = 1
    /\ Len(queue) + Len(popped) = Len(inserted)

\* two entries returned, one stored, while a producer is between its unlock
\* and its signal and a consumer is inside Next
NoLossNoDuplicationWitness ==
    /\ Len(popped) = 2
    /\ Len(queue) = 1
    /\ \E t \in Producers : pc[t] \in {"a_sig", "a_send"}
    /\ \E t \in Consumers : pc[t] = "n_unlock"

(***************************************************************************)
(* C4. Next never blocks: it never waits on the channel while it holds the *)
(* mutex, that is, its send never finds the buffer full and its receive    *)
(* never finds it empty.                                                   *)
(***************************************************************************)
NextNeverWaits ==
    \A t \in Threads :
        /\ pc[t] = "n_send" => sig < SignalCap
        /\ pc[t] = "n_recv" => sig > 0

(***************************************************************************)
(* C5. Append always returns, also when nobody receives from the channel:  *)
(* under SpecProducers, where only producers run, whenever no thread can   *)
(* take a step every call has returned with its entry in the store.        *)
(***************************************************************************)
AppendCompletes ==
    \/ ENABLED ProducersNext
    \/ /\ \A t \in Threads : pc[t] = "idle"
       /\ Len(queue) = started

(***************************************************************************)
(* C6. No lost wake-up: under SpecWait there is no state in which the      *)
(* store is non-empty, every producer has finished and the consumer can    *)
(* never take a step again.                                                *)
(***************************************************************************)
ProducersFinished ==
    started = MaxAppends /\ \A t \in Producers : pc[t] = "idle"

NoLostWakeup ==
    (Len(queue) > 0 /\ ProducersFinished) => ENABLED WaitNext

(***************************************************************************)
(* C7. Signal readiness: whenever no queue operation is in progress and    *)
(* the store is non-empty, the channel holds a notification.               *)
(***************************************************************************)
SignalReadiness ==
    (Quiescent /\ Len(queue) > 0) => sig >= 1

(***************************************************************************)
(* C7, amended: whenever no queue operation is in progress and the store   *)
(* is non-empty, the channel holds a notification or a consumer has        *)
(* received one and has not called Next since.                             *)
(***************************************************************************)
SignalReadyOrTaken ==
    (Quiescent /\ Len(queue) > 0) =>
        (sig >= 1 \/ \E t \in Threads : pc[t] = "got")

\* after a Next call returned an entry, the store is non-empty, no operation
\* runs and a consumer holds the only notification
SignalReadyOrTakenWitness ==
    /\ Quiescent
    /\ Len(queue) > 0
    /\ Len(popped) > 0
    /\ sig = 0
    /\ \E t \in Consumers : pc[t] = "got"

(***************************************************************************)
(* C8. No stale readiness: whenever no queue operation is in progress and  *)
(* the store is empty, the channel holds no notification.                  *)
(***************************************************************************)
NoStaleReadiness ==
    (Quiescent /\ Len(queue) = 0) => sig = 0

(***************************************************************************)
(* C9. Append raises the signal: once an Append or AppendPriority call has *)
(* returned (no Next call being in progress), the channel holds a          *)
(* notification until the next Next call starts, unless a consumer         *)
(* receives it.                                                            *)
(***************************************************************************)
AppendRaisesSignal == raised => sig >= 1

\* the first Append, on the empty queue, has returned and nothing else has
\* happened
AppendRaisesSignalWitness ==
    /\ raised
    /\ Len(inserted) = 1
    /\ Len(queue) = 1
    /\ popped = << >>
    /\ Quiescent

ProcessReturns(t) ==
    call[t].op = "Process" /\ pc[t] # "idle" /\ pc'[t] = "idle"

\* the callback has received each entry of the store s once, and nothing else
DeliveredOnce(d, s) ==
    /\ Len(d) = Len(s)
    /\ \A k \in DOMAIN s :
           Cardinality({i \in DOMAIN d : d[i] = s[k].Data}) = 1

ProcessDrains ==
    /\ [][\A t \in Threads :
              ProcessReturns(t) =>
                  /\ queue' = << >>
                  /\ DeliveredOnce(delivered', atStart)]_vars
    /\ \A t \in MainThread : (call[t].op = "Process") ~> (pc[t] = "idle")

\* a Process call that started on three entries has returned: three
\* callbacks, the store empty
ProcessDrainsWitness ==
    /\ \A t \in Threads : pc[t] = "idle"
    /\ Len(atStart) = 3
    /\ Len(delivered) = 3
    /\ queue = << >>

(***************************************************************************)
(* C12. Next on an empty store returns no item and found = false and       *)
(* leaves the store empty; on a non-empty store it removes exactly one     *)
(* entry and returns its item with found = true; the values decided under  *)
(* the mutex are the ones returned.  Hence a Next call that follows as     *)
(* many found Next calls as there were inserts returns found = false.      *)
(***************************************************************************)
\* the thread executes the removal step of Next
NextDecides(t) == pc[t] = "n_pop" /\ pc'[t] # "n_pop"

NextFoundOrNot ==
    [][\A t \in Threads :
          /\ NextDecides(t) =>
                IF Len(queue) = 0
                THEN /\ ret'[t].ok = FALSE
                     /\ ret'[t].data = NoResult.data
                     /\ queue' = << >>
                     /\ popped' = popped
                ELSE /\ ret'[t].ok = TRUE
                     /\ Len(queue') = Len(queue) - 1
                     /\ Len(popped') = Len(popped) + 1
                     /\ ret'[t].data = popped'[Len(popped')].Data
                     /\ Count(queue, ret'[t].data,
                              popped'[Len(popped')].priority) = 1
                     /\ Count(queue', ret'[t].data,
                              popped'[Len(popped')].priority) = 0
          /\ (NextDecides(t) /\ Len(popped) = Len(inserted)) =>
                ret'[t].ok = FALSE
          /\ (pc[t] \in {"n_sig", "n_send", "n_len", "n_recv", "n_unlock"}
                 /\ pc'[t] # "idle") => ret'[t] = ret[t]]_vars

\* three inserts, three found Next calls, and a fourth Next call about to
\* return found = false
NextFoundOrNotWitness ==
    /\ Len(inserted) = 3
    /\ Len(popped) = 3
    /\ \E t \in Consumers :
           pc[t] = "n_unlock" /\ call[t].op = "Next" /\ ret[t].ok = FALSE

(***************************************************************************)
(* C13. Len/Empty consistency: under SpecCalls the value a Len call        *)
(* returns is the number of inserts made minus the number of Next calls    *)
(* that found an entry, which is the number of entries in the store, and   *)
(* an Empty call returns true exactly when that number is 0.               *)
(***************************************************************************)
LenEmptyConsistent ==
    \A t \in Threads :
        pc[t] = "l_unlock" =>
            /\ ret[t].n = Len(inserted) - Len(popped)
            /\ ret[t].n = Len(queue)
            /\ call[t].op = "Empty" => (ret[t].ok <=> ret[t].n = 0)

\* Empty is about to return false after three inserts and one found Next
LenEmptyConsistentWitness ==
    \E t \in MainThread :
        /\ pc[t] = "l_unlock"
        /\ call[t].op = "Empty"
        /\ ret[t].ok = FALSE
        /\ ret[t].n = 2
        /\ Len(inserted) = 3
        /\ Len(popped) = 1

(***************************************************************************)
(* C14. Unrecognized levels are dropped: an entry appended with a priority *)
(* outside PriorityLow..PriorityCritical is never in the store and is      *)
(* never returned by Next.                                                 *)
(***************************************************************************)
UnrecognizedDropped ==
    \A d \in DOMAIN inserted :
        inserted[d] \notin Priorities =>
            Count(queue, d, inserted[d]) + Count(popped, d, inserted[d]) = 0

(***************************************************************************)
(* C14, amended: an entry appended with a priority outside                 *)
(* PriorityLow..PriorityCritical is kept like any other: from the push on  *)
(* it is in the store, or has been returned by Next, exactly once, and the *)
(* push makes the store one entry longer.                                  *)
(***************************************************************************)
UnrecognizedKept ==
    /\ \A d \in DOMAIN inserted :
           inserted[d] \notin Priorities =>
               Count(queue, d, inserted[d]) + Count(popped, d, inserted[d]) = 1
    /\ Len(queue) = Len(inserted) - Len(popped)

\* the entry appended with priority -1 after an entry of priority 90 has been
\* returned by the second Next call
UnrecognizedKeptWitness ==
    /\ Len(inserted) = 2
    /\ inserted[1] = 90
    /\ inserted[2] < PriorityLow
    /\ Len(popped) = 2
    /\ Entry(popped[2]) = <<2, inserted[2]>>
    /\ \A t \in Threads : pc[t] = "idle"

(***************************************************************************)
(* C16. Any integer is a priority: under SpecAnyPriority the push of an    *)
(* AppendPriority call, whatever the integer, makes the store one entry    *)
(* longer and puts the new entry in it; the entry a Next call removes has  *)
(* the greatest integer priority of the store, so entries come out in      *)
(* descending order of the integer; and Next on the emptied store reports  *)
(* not found.                                                              *)
(***************************************************************************)
AnyIntegerPriority ==
    [][/\ inserted' # inserted =>
              /\ Len(queue') = Len(queue) + 1
              /\ Count(queue', Len(inserted'),
                       inserted'[Len(inserted')]) = 1
       /\ popped' # popped =>
              \A k \in DOMAIN queue :
                  queue[k].priority <= popped'[Len(popped')].priority
       /\ \A t \in Threads :
              (NextDecides(t) /\ Len(queue) = 0) => ret'[t].ok = FALSE]_vars

\* the priorities of TestNext: 90, 75, 30, 5 appended in that order have been
\* returned in that order and a fifth Next call is about to return not found
AnyIntegerPriorityWitness ==
    /\ inserted = <<90, 75, 30, 5>>
    /\ Len(popped) = 4
    /\ \A i \in 1..4 : Entry(popped[i]) = <<i, inserted[i]>>
    /\ \E t \in MainThread : pc[t] = "n_unlock" /\ ret[t].ok = FALSE

(***************************************************************************)
(* C15. Append is AppendPriority at PriorityNormal: under SpecCalls the    *)
(* push of an Append call leaves the store that the push of                *)
(* AppendPriority(x, PriorityNormal) leaves from the same state, and the   *)
(* steps on the channel that follow do not depend on the method called.    *)
(* Hence an entry inserted with Append is returned when the store holds no *)
(* High or Critical entry, and a Low entry is returned when the store      *)
(* holds no entry inserted with Append.                                    *)
(***************************************************************************)
\* the thread executes the push of append
AppendPushes(t) == pc[t] = "a_push" /\ pc'[t] # "a_push"

AppendIsNormal ==
    [][/\ \A t \in Threads :
              (AppendPushes(t) /\ call[t].op = "Append") =>
                  /\ queue' = HeapPush(queue, NewElement(Len(inserted) + 1,
                                                         PriorityNormal))
                  /\ inserted'[Len(inserted')] = PriorityNormal
       /\ \A t \in Threads :
              (pc[t] = "a_sig" /\ pc'[t] # "a_sig") =>
                  /\ sig' = sig
                  /\ pc'[t] = "a_send" <=> sig = 0
       /\ \A t \in Threads :
              (pc[t] = "a_send" /\ pc'[t] # "a_send") => sig' = sig + 1
       /\ popped' # popped =>
              LET e == popped'[Len(popped')]
              IN  /\ e.Data \in viaAppend =>
                         \A k \in DOMAIN queue :
                             queue[k].priority
                                 \notin {PriorityHigh, PriorityCritical}
                  /\ e.priority = PriorityLow =>
                         \A k \in DOMAIN queue :
                             queue[k].Data \notin viaAppend]_vars

\* Low, then Append, then High: the High entry and then the entry inserted
\* with Append have been returned, the Low entry is still stored
AppendIsNormalWitness ==
    /\ Len(inserted) = 3
    /\ inserted[1] = PriorityLow
    /\ inserted[3] = PriorityHigh
    /\ viaAppend = {2}
    /\ Len(popped) = 2
    /\ popped[1].Data = 3
    /\ popped[2].Data = 2
    /\ Len(queue) = 1
    /\ \A t \in Threads : pc[t] = "idle"

(***************************************************************************)
(* C17. The signal is a single slot: in every reachable state of Spec the  *)
(* Signal channel holds at most one notification.                          *)
(***************************************************************************)
SingleSlot == sig <= 1

(***************************************************************************)
(* C18. Everything under the lock: a thread about to change the store      *)
(* (push in append, removal in Next) or the channel (send in append, send  *)
(* or receive in Next) holds the mutex.                                    *)
(***************************************************************************)
MutatesUnderLock ==
    \A t \in Threads :
        pc[t] \in {"a_push", "a_send", "n_pop", "n_send", "n_recv"}
            => mutex = t

(***************************************************************************)
(* C19. Sequential calls, no receiver: under SpecCalls, as long as nobody  *)
(* has received from the Signal channel, whenever the thread is between    *)
(* two calls the channel holds exactly one notification if the store is    *)
(* non-empty and none if it is empty.                                      *)
(***************************************************************************)
SignalMatchesStore ==
    (Quiescent /\ ~received) => sig = (IF Len(queue) > 0 THEN 1 ELSE 0)

\* nobody has received; appends, a found Next and a Process call have been
\* made, and the store drained by Process has no notification
SignalMatchesStoreWitness ==
    /\ Quiescent
    /\ ~received
    /\ Len(inserted) = 3
    /\ Len(delivered) = 2
    /\ Len(popped) = 3
    /\ queue = << >>
    /\ sig = 0

(***************************************************************************)
(* C20. One producer, one consumer: under SpecPair, where the consumer     *)
(* alternates a receive from the channel with a Next call, no queue        *)
(* operation waits on the channel: a thread at the send of SendSignal      *)
(* finds room in the buffer and a thread at the receive of Next finds a    *)
(* notification.                                                           *)
(***************************************************************************)
PairNeverWaits ==
    \A t \in Threads :
        /\ pc[t] \in {"a_send", "n_send"} => sig < SignalCap
        /\ pc[t] = "n_recv" => sig > 0

\* the producer and the consumer's Next have both read an empty channel and
\* both sent: the buffer is full and nobody waited
PairNeverWaitsWitness ==
    /\ sig = SignalCap
    /\ Len(popped) > 0
    /\ Len(queue) > 0
    /\ Quiescent

====
